---- MODULE Spec2Model ----
(***************************************************************************)
(* leaf-js: the pagination engine (TurnPage) and the single-surface flip   *)
(* engine (FlipPage), modelled as state machines.                          *)
(*                                                                         *)
(* Spec      the pagination engine                                         *)
(* FlipSpec  the single-surface flip engine                                *)
(* UtilSpec  the utilities (bezier)                                        *)
(***************************************************************************)
EXTENDS Integers, Sequences, FiniteSets, TLC

VARIABLES
    element,    \* TurnPage: the host element's layout size (offsetWidth/Height)
    data,       \* TurnPage: this.data (PageData)
    listening,  \* TurnPage: the pointer listeners are attached
    events,     \* TurnPage: notifications dispatched by the last call
    last,       \* TurnPage: the last call, its arguments and whether it threw
    flip,       \* FlipPage: options, flags, session point and fpage styling
    ftimers,    \* FlipPage: pending setTimeout callbacks
    fevents,    \* FlipPage: notifications dispatched by the last call
    flast,      \* FlipPage: the last call, its arguments and pre-state
    fopen,      \* FlipPage: a flipstart was dispatched and no flipend since
    memoizedBezier, \* Utils: the memoization map of bezier
    blast       \* Utils: the last call of bezier, its arguments and result

turnVars == <<element, data, listening, events, last>>
flipVars == <<flip, ftimers, fevents, flast, fopen>>
utilVars == <<memoizedBezier, blast>>
vars == <<element, data, listening, events, last,
          flip, ftimers, fevents, flast, fopen, memoizedBezier, blast>>

----------------------------------------------------------------------------
(* Bounds of the model *)

\* largest page index used by addPage, setPage and the constructor
MaxPages == 4
\* most entries of the bezier memoization map
MaxMemo == 2
\* most settle timers of the single-surface engine pending at once
MaxTimers == 2

----------------------------------------------------------------------------
(* constants.ts *)

displays == {"single", "double"}

Corners == {"tl", "tr", "bl", "br"}

\* the value of a corner variable holding null
NoCorner == "none"

\* page indexes a caller passes to addPage: omitted (0), an existing page's
\* index and the largest index
PageArgs == {0, 1, MaxPages}

\* display modes a caller may pass; "triple" stands for any unrecognized value
DisplayArgs == {"single", "double", "triple"}

\* host element sizes (offsetWidth, offsetHeight) the engines are laid out in
Sizes == { [w |-> 200, h |-> 120] }

Max(a, b) == IF a >= b THEN a ELSE b

Abs(a) == IF a < 0 THEN 0 - a ELSE a

----------------------------------------------------------------------------
(* TurnPage (pagination engine) *)

\* the corner size hard-coded in TurnPage.detectCorner
TurnCornerSize == 50

\* pointer positions delivered by the input collaborator: the innermost
\* point of each corner zone and the point just outside the tl zone
PointsOf(sz, cs) ==
    { [x |-> cs - 1, y |-> cs - 1], [x |-> sz.w - cs + 1, y |-> cs - 1],
      [x |-> cs - 1, y |-> sz.h - cs + 1],
      [x |-> sz.w - cs + 1, y |-> sz.h - cs + 1],
      [x |-> cs, y |-> cs] }

NoPoint == [x |-> 0, y |-> 0]

\* a freshly created page wrapper (addPage): neither visibility nor transform
\* is set, which renders as visible and untransformed
NewWrapper ==
    [visibility |-> "visible", transform |-> [kind |-> "none", x |-> 0, y |-> 0]]

\* the outcome of a method call: the new this.data, the notifications it
\* dispatched and whether it threw
R(d, ev, err) == [d |-> d, ev |-> ev, err |-> err]

getPageWidth(d, sz) ==
    IF d.display = "double" THEN sz.w \div 2 ELSE sz.w

\* view with the parity test inverted
view_evenFirst(d) ==
    LET page == IF d.page = 0 THEN 1 ELSE d.page
    IN  IF d.display = "double"
        THEN IF page % 2 = 0 THEN <<page, page + 1>> ELSE <<page - 1, page>>
        ELSE <<page>>

view(d) ==
    LET page == IF d.page = 0 THEN 1 ELSE d.page
    IN  IF d.display = "double"
        THEN IF page % 2 # 0 THEN <<page, page + 1>> ELSE <<page - 1, page>>
        ELSE <<page>>

InView(d, p) == \E i \in 1..Len(view(d)) : view(d)[i] = p

\* Math.max(...s) and Math.min(...s)
MaxOf(s) == CHOOSE m \in {s[i] : i \in 1..Len(s)} :
                \A i \in 1..Len(s) : s[i] <= m

MinOf(s) == CHOOSE m \in {s[i] : i \in 1..Len(s)} :
                \A i \in 1..Len(s) : s[i] >= m

updatePagesPosition(d) ==
    [d EXCEPT !.pageWrap =
        [p \in DOMAIN d.pageWrap |->
            IF p < 1 \/ p > d.totalPages THEN d.pageWrap[p]
            ELSE IF InView(d, p)
                 THEN [d.pageWrap[p] EXCEPT !.visibility = "visible"]
                 ELSE [d.pageWrap[p] EXCEPT !.visibility = "hidden"]]]

\* setPage without the range check
setPage_unchecked(d, pageNumber) ==
    IF d.page = pageNumber
    THEN R(d, <<>>, FALSE)
    ELSE R(updatePagesPosition([d EXCEPT !.page = pageNumber]),
           <<[name |-> "pageChanged", previous |-> d.page,
              current |-> pageNumber]>>,
           FALSE)

\* setPage storing the page number before it validates it
setPage_assignFirst(d, pageNumber) ==
    IF pageNumber < 1 \/ pageNumber > d.totalPages
    THEN R([d EXCEPT !.page = pageNumber], <<>>, TRUE)
    ELSE IF d.page = pageNumber
    THEN R(d, <<>>, FALSE)
    ELSE R(updatePagesPosition([d EXCEPT !.page = pageNumber]),
           <<[name |-> "pageChanged", previous |-> d.page,
              current |-> pageNumber]>>,
           FALSE)

\* setPage with the payload's previous and current exchanged
setPage_swapped(d, pageNumber) ==
    IF pageNumber < 1 \/ pageNumber > d.totalPages
    THEN R(d, <<>>, TRUE)
    ELSE IF d.page = pageNumber
    THEN R(d, <<>>, FALSE)
    ELSE R(updatePagesPosition([d EXCEPT !.page = pageNumber]),
           <<[name |-> "pageChanged", previous |-> pageNumber,
              current |-> d.page]>>,
           FALSE)

setPage(d, pageNumber) ==
    IF pageNumber < 1 \/ pageNumber > d.totalPages
    THEN R(d, <<>>, TRUE)
    ELSE IF d.page = pageNumber
    THEN R(d, <<>>, FALSE)
    ELSE R(updatePagesPosition([d EXCEPT !.page = pageNumber]),
           <<[name |-> "pageChanged", previous |-> d.page,
              current |-> pageNumber]>>,
           FALSE)

\* next with a strict bound: the last page is never reached
next_strict(d) ==
    LET nextPage == MaxOf(view(d)) + 1
    IN  IF nextPage < d.totalPages THEN setPage(d, nextPage)
        ELSE R(d, <<>>, FALSE)

next(d) ==
    LET nextPage == MaxOf(view(d)) + 1
    IN  IF nextPage <= d.totalPages THEN setPage(d, nextPage)
        ELSE R(d, <<>>, FALSE)

\* previous landing on the first page of the previous spread
previous_toSpreadStart(d) ==
    LET prevPage == MinOf(view(d)) - Len(view(d))
    IN  IF prevPage >= 1 THEN setPage(d, prevPage)
        ELSE R(d, <<>>, FALSE)

previous(d) ==
    LET prevPage == MinOf(view(d)) - 1
    IN  IF prevPage >= 1 THEN setPage(d, prevPage)
        ELSE R(d, <<>>, FALSE)

\* setDisplay without the early return for an unchanged mode
setDisplay_alwaysNotifies(d, display) ==
    IF display \notin displays
    THEN R(d, <<>>, TRUE)
    ELSE LET d1 == [d EXCEPT !.display = display]
             d2 == IF d.done THEN updatePagesPosition(d1) ELSE d1
         IN  R(d2,
               <<[name |-> "displayChanged", previous |-> d.display,
                  current |-> display]>>,
               FALSE)

\* setDisplay coercing an unrecognized mode to the default instead of throwing
setDisplay_coerce(d, display) ==
    LET mode == IF display \notin displays THEN "double" ELSE display
    IN  IF d.display = mode
        THEN R(d, <<>>, FALSE)
        ELSE LET d1 == [d EXCEPT !.display = mode]
                 d2 == IF d.done THEN updatePagesPosition(d1) ELSE d1
             IN  R(d2,
                   <<[name |-> "displayChanged", previous |-> d.display,
                      current |-> mode]>>,
                   FALSE)

setDisplay(d, display) ==
    IF display \notin displays
    THEN R(d, <<>>, TRUE)
    ELSE IF d.display = display
    THEN R(d, <<>>, FALSE)
    ELSE LET d1 == [d EXCEPT !.display = display]
             d2 == IF d.done THEN updatePagesPosition(d1) ELSE d1
         IN  R(d2,
               <<[name |-> "displayChanged", previous |-> d.display,
                  current |-> display]>>,
               FALSE)

\* addPage storing the new index as the page count unconditionally
addPage_setsTotal(d, hasElement, page) ==
    IF ~hasElement THEN R(d, <<>>, FALSE)
    ELSE LET idx == IF page = 0 THEN d.totalPages + 1 ELSE page
         IN  R([d EXCEPT !.totalPages = idx,
                         !.pageWrap = [p \in DOMAIN d.pageWrap \cup {idx} |->
                                          IF p = idx THEN NewWrapper
                                          ELSE d.pageWrap[p]]],
               <<>>, FALSE)

\* page = 0 stands for an omitted (or falsy) index: page || totalPages + 1
addPage(d, hasElement, page) ==
    IF ~hasElement THEN R(d, <<>>, FALSE)
    ELSE LET idx == IF page = 0 THEN d.totalPages + 1 ELSE page
             total == IF idx > d.totalPages THEN idx ELSE d.totalPages
         IN  R([d EXCEPT !.totalPages = total,
                         !.pageWrap = [p \in DOMAIN d.pageWrap \cup {idx} |->
                                          IF p = idx THEN NewWrapper
                                          ELSE d.pageWrap[p]]],
               <<>>, FALSE)

TurnPage_detectCorner(sz, point) ==
    IF point.y < TurnCornerSize
    THEN IF point.x < TurnCornerSize THEN "tl"
         ELSE IF point.x > sz.w - TurnCornerSize THEN "tr"
         ELSE NoCorner
    ELSE IF point.y > sz.h - TurnCornerSize
    THEN IF point.x < TurnCornerSize THEN "bl"
         ELSE IF point.x > sz.w - TurnCornerSize THEN "br"
         ELSE NoCorner
    ELSE NoCorner

\* the fold origin; the fold angle is atan2(y, x) of the result
calculateFoldPosition(corner, point, width, height) ==
    LET xr == (IF point.x = 0 THEN width ELSE point.x) - width
        yb == (IF point.y = 0 THEN height ELSE point.y) - height
    IN  CASE corner = "tl" -> [x |-> point.x, y |-> point.y]
          [] corner = "tr" -> [x |-> xr, y |-> point.y]
          [] corner = "bl" -> [x |-> point.x, y |-> yb]
          [] corner = "br" -> [x |-> xr, y |-> yb]
          [] OTHER -> [x |-> 0, y |-> 0]

\* rotate(atan2(fold.y, fold.x)) about the origin (fold.x, fold.y)
applyFoldTransform(wrapper, fold) ==
    [wrapper EXCEPT !.transform = [kind |-> "rotate", x |-> fold.x, y |-> fold.y]]

IsRight(corner) == corner \in {"tr", "br"}

\* startFlip without the test that no page is in motion
startFlip_reentrant(d, sz, corner) ==
    IF d.disabled THEN R(d, <<>>, FALSE)
    ELSE LET v == view(d)
             page == IF IsRight(corner) THEN v[1] ELSE v[Len(v)]
             nextPage == IF IsRight(corner) THEN page + 1 ELSE page - 1
         IN  IF page \notin DOMAIN d.pageWrap THEN R(d, <<>>, FALSE)
             ELSE IF nextPage < 1 \/ nextPage > d.totalPages
             THEN R(d, <<>>, FALSE)
             ELSE R([d EXCEPT !.pageMv = <<page>>,
                              !.pageWrap[page].visibility = "visible"],
                    <<[name |-> "flipStart", page |-> page,
                       corner |-> corner]>>,
                    FALSE)

\* startFlip anchoring the current page whatever the corner
startFlip_anchorsCurrent(d, sz, corner) ==
    IF d.disabled \/ Len(d.pageMv) > 0 THEN R(d, <<>>, FALSE)
    ELSE LET page == d.page
             nextPage == IF IsRight(corner) THEN page + 1 ELSE page - 1
         IN  IF page \notin DOMAIN d.pageWrap THEN R(d, <<>>, FALSE)
             ELSE IF nextPage < 1 \/ nextPage > d.totalPages
             THEN R(d, <<>>, FALSE)
             ELSE R([d EXCEPT !.pageMv = <<page>>,
                              !.pageWrap[page].visibility = "visible"],
                    <<[name |-> "flipStart", page |-> page,
                       corner |-> corner]>>,
                    FALSE)

startFlip(d, sz, corner) ==
    IF d.disabled \/ Len(d.pageMv) > 0 THEN R(d, <<>>, FALSE)
    ELSE LET v == view(d)
             page == IF IsRight(corner) THEN v[1] ELSE v[Len(v)]
             nextPage == IF IsRight(corner) THEN page + 1 ELSE page - 1
         IN  IF page \notin DOMAIN d.pageWrap THEN R(d, <<>>, FALSE)
             ELSE IF nextPage < 1 \/ nextPage > d.totalPages
             THEN R(d, <<>>, FALSE)
             ELSE LET initialFold ==
                          calculateFoldPosition(corner, [x |-> 0, y |-> 0],
                                                getPageWidth(d, sz), sz.h)
                      w1 == [d.pageWrap[page] EXCEPT !.visibility = "visible"]
                  IN  R([d EXCEPT !.pageMv = <<page>>,
                                  !.pageWrap[page] =
                                      applyFoldTransform(w1, initialFold)],
                        <<[name |-> "flipStart", page |-> page,
                           corner |-> corner]>>,
                        FALSE)

\* progress is |fold.x| / width, kept as the pair <<|fold.x|, width>>
updateFlip(d, sz, point) ==
    IF Len(d.pageMv) = 0 THEN R(d, <<>>, FALSE)
    ELSE LET page == d.pageMv[1]
             width == getPageWidth(d, sz)
             corner == TurnPage_detectCorner(sz, point)
             fold == calculateFoldPosition(corner, point, width, sz.h)
         IN  IF page \notin DOMAIN d.pageWrap THEN R(d, <<>>, FALSE)
             ELSE IF corner = NoCorner THEN R(d, <<>>, FALSE)
             ELSE R([d EXCEPT !.pageWrap[page] =
                                  applyFoldTransform(d.pageWrap[page], fold)],
                    <<[name |-> "flipMove", page |-> page,
                       progress |-> <<Abs(fold.x), width>>]>>,
                    FALSE)

\* a landing page that is always the following page in double mode
landingPage_forward(d, page) ==
    IF d.display = "double" THEN page + 1 ELSE page

\* a landing page that is always the preceding page in double mode
landingPage_backward(d, page) ==
    IF d.display = "double" THEN page - 1 ELSE page

\* the landing page of a completed flip of `page`
landingPage(d, page) ==
    IF d.display = "double"
    THEN IF page % 2 = 0 THEN page - 1 ELSE page + 1
    ELSE page

\* the eased transition and the timeout that clears it again only style the
\* wrapper on the rendering surface; the wrapper's transform is reset
completeFlip(d) ==
    IF Len(d.pageMv) = 0 THEN R(d, <<>>, FALSE)
    ELSE LET page == d.pageMv[1]
         IN  IF page \notin DOMAIN d.pageWrap THEN R(d, <<>>, FALSE)
             ELSE LET d1 == [d EXCEPT !.pageWrap[page].transform =
                                          [kind |-> "none", x |-> 0, y |-> 0]]
                      nextPage == landingPage(d1, page)
                      r == IF nextPage >= 1 /\ nextPage <= d1.totalPages
                           THEN setPage(d1, nextPage)
                           ELSE R(d1, <<>>, FALSE)
                  IN  IF r.err THEN r
                      ELSE R([r.d EXCEPT !.pageMv = <<>>],
                             r.ev \o <<[name |-> "flipComplete", page |-> page]>>,
                             FALSE)

\* TurnPage.destroy: the cleared PageData
ClearedData ==
    [pageWrap |-> <<>>, pageMv |-> <<>>, totalPages |-> 0, page |-> 1,
     display |-> "double", disabled |-> FALSE, done |-> FALSE]

----------------------------------------------------------------------------
(* TurnPage: construction *)

RECURSIVE AddChildren(_, _, _)
\* the constructor's loop: addPage(children[i], i + 1) for i = from-1 .. n-1
AddChildren(d, from, n) ==
    IF from > n THEN d
    ELSE AddChildren(addPage(d, TRUE, from).d, from + 1, n)

\* new TurnPage(element, {page: optPage, display: optDisplay}) over an element
\* with n children; optPage = 0 and optDisplay = "" stand for an omitted option
Construct(n, optPage, optDisplay) ==
    LET page0 == IF optPage = 0 THEN 1 ELSE optPage
        display0 == IF optDisplay = "" THEN "double" ELSE optDisplay
        d0 == [pageWrap |-> <<>>, pageMv |-> <<>>, totalPages |-> 0,
               page |-> page0, display |-> display0, disabled |-> FALSE,
               done |-> FALSE]
        r1 == setDisplay(d0, display0)
        d2 == AddChildren(r1.d, 1, n)
        r3 == setPage(d2, page0)
    IN  IF r1.err THEN r1
        ELSE IF r3.err THEN r3
        ELSE R([r3.d EXCEPT !.done = TRUE], r1.ev \o r3.ev, FALSE)

----------------------------------------------------------------------------
(* TurnPage: the calls as actions *)

\* the record of a call: its name, its arguments (a page number, a display
\* mode, whether an element was passed, the corner detected at the pointer)
\* and whether it threw
Call(op, n, mode, el, corner, r) ==
    [op |-> op, n |-> n, mode |-> mode, el |-> el, corner |-> corner,
     err |-> r.err]

Apply(r, call) ==
    /\ data' = r.d
    /\ events' = r.ev
    /\ last' = call
    /\ UNCHANGED <<element, listening>>
    /\ UNCHANGED flipVars
    /\ UNCHANGED utilVars

AddPage(hasElement, page) ==
    /\ page = 0 => data.totalPages < MaxPages
    /\ LET r == addPage(data, hasElement, page)
       IN  Apply(r, Call("addPage", page, "", hasElement, NoCorner, r))

SetDisplay(display) ==
    LET r == setDisplay(data, display)
    IN  Apply(r, Call("setDisplay", 0, display, FALSE, NoCorner, r))

SetPage(pageNumber) ==
    LET r == setPage(data, pageNumber)
    IN  Apply(r, Call("setPage", pageNumber, "", FALSE, NoCorner, r))

NextPage ==
    LET r == next(data)
    IN  Apply(r, Call("next", 0, "", FALSE, NoCorner, r))

PreviousPage ==
    LET r == previous(data)
    IN  Apply(r, Call("previous", 0, "", FALSE, NoCorner, r))

HandleStart(point) ==
    /\ listening
    /\ LET corner == TurnPage_detectCorner(element, point)
           r == IF data.disabled \/ corner = NoCorner THEN R(data, <<>>, FALSE)
                ELSE startFlip(data, element, corner)
       IN  Apply(r, Call("handleStart", 0, "", FALSE, corner, r))

HandleMove(point) ==
    /\ listening
    /\ LET r == IF data.disabled \/ Len(data.pageMv) = 0
                THEN R(data, <<>>, FALSE)
                ELSE updateFlip(data, element, point)
       IN  Apply(r, Call("handleMove", 0, "", FALSE,
                       TurnPage_detectCorner(element, point), r))

HandleEnd ==
    /\ listening
    /\ LET r == IF data.disabled \/ Len(data.pageMv) = 0
                THEN R(data, <<>>, FALSE)
                ELSE completeFlip(data)
       IN  Apply(r, Call("handleEnd", 0, "", FALSE, NoCorner, r))

\* removeEventListener is given this.handleStart, not the bound function that
\* was added, so no listener is removed
Destroy ==
    Apply(R(ClearedData, <<>>, FALSE),
          Call("destroy", 0, "", FALSE, NoCorner, R(data, <<>>, FALSE)))

TurnInit ==
    \E sz \in Sizes, n \in 0..MaxPages, optPage \in 0..MaxPages,
       optDisplay \in DisplayArgs \cup {""} :
        LET r == Construct(n, optPage, optDisplay)
        IN  /\ ~r.err
            /\ element = sz
            /\ data = r.d
            /\ listening = TRUE
            /\ events = r.ev
            /\ last = [op |-> "new", n |-> n, mode |-> optDisplay, el |-> FALSE,
                       corner |-> NoCorner, err |-> FALSE]

----------------------------------------------------------------------------
(* FlipPage (single-surface engine) *)

\* values of the `corners` option: the three presets, an unrecognized string
\* and a value that is no string (an explicit list)
CornerArgs == {"forward", "backward", "all", "other", "list"}

\* values of the `cornerSize` option (0 is falsy: detection is switched off)
CornerSizes == {0, 50}

\* element sizes of the single-surface engine: with a corner size of 50 the
\* zones of the first are disjoint and those of the second overlap
FlipSizes == { [w |-> 200, h |-> 120], [w |-> 80, h |-> 60] }

\* values of the `duration` option in ms (0 is falsy: 600 is used instead)
Durations == {0, 300}

defaultFlipOptions ==
    [corners |-> "forward", cornerSize |-> 100, gradients |-> TRUE,
     duration |-> 600, acceleration |-> TRUE]

\* the option records the engine is constructed with
FlipOptionSets ==
    { [defaultFlipOptions EXCEPT !.corners = c, !.cornerSize = cs] :
        c \in CornerArgs, cs \in CornerSizes }
    \cup
    { [defaultFlipOptions EXCEPT !.gradients = g, !.acceleration = a] :
        g \in BOOLEAN, a \in BOOLEAN }
    \cup
    { [defaultFlipOptions EXCEPT !.duration = ms] : ms \in Durations }

\* the allowed corners resolved from the `corners` option
allowedCorners(corners) ==
    CASE corners = "forward" -> {"br", "tr"}
      [] corners = "backward" -> {"bl", "tl"}
      [] corners = "all" -> {"tl", "bl", "tr", "br"}
      [] OTHER -> {"br", "tr"}

\* detectCorner without the allowed-corner test on the right-hand corners
FlipPage_detectCorner_unfiltered(options, sz, point) ==
    LET cs == options.cornerSize
        allowed == allowedCorners(options.corners)
    IN  IF cs = 0 THEN NoCorner
        ELSE IF point.y < cs
        THEN IF point.x < cs /\ "tl" \in allowed THEN "tl"
             ELSE IF point.x > sz.w - cs THEN "tr"
             ELSE NoCorner
        ELSE IF point.y > sz.h - cs
        THEN IF point.x < cs /\ "bl" \in allowed THEN "bl"
             ELSE IF point.x > sz.w - cs THEN "br"
             ELSE NoCorner
        ELSE NoCorner

\* detectCorner with the left-hand zones closed at their right boundary
FlipPage_detectCorner_inclusive(options, sz, point) ==
    LET cs == options.cornerSize
        allowed == allowedCorners(options.corners)
    IN  IF cs = 0 THEN NoCorner
        ELSE IF point.y < cs
        THEN IF point.x <= cs /\ "tl" \in allowed THEN "tl"
             ELSE IF point.x > sz.w - cs /\ "tr" \in allowed THEN "tr"
             ELSE NoCorner
        ELSE IF point.y > sz.h - cs
        THEN IF point.x <= cs /\ "bl" \in allowed THEN "bl"
             ELSE IF point.x > sz.w - cs /\ "br" \in allowed THEN "br"
             ELSE NoCorner
        ELSE NoCorner

FlipPage_detectCorner(options, sz, point) ==
    LET cs == options.cornerSize
        allowed == allowedCorners(options.corners)
    IN  IF cs = 0 THEN NoCorner
        ELSE IF point.y < cs
        THEN IF point.x < cs /\ "tl" \in allowed THEN "tl"
             ELSE IF point.x > sz.w - cs /\ "tr" \in allowed THEN "tr"
             ELSE NoCorner
        ELSE IF point.y > sz.h - cs
        THEN IF point.x < cs /\ "bl" \in allowed THEN "bl"
             ELSE IF point.x > sz.w - cs /\ "br" \in allowed THEN "br"
             ELSE NoCorner
        ELSE NoCorner

\* this.data.point === undefined
NoSession == [set |-> FALSE, x |-> 0, y |-> 0, corner |-> NoCorner]

\* fpage.style.transform: unset, 'none', or the matrix built by applyTransform
\* for the angle atan2(dy, dx), plus PI when `pi`; the fold is
\* (w - cos(angle) w, h - sin(angle) h)
NoTransform == [kind |-> "", dx |-> 0, dy |-> 0, pi |-> FALSE]

NoneTransform == [kind |-> "none", dx |-> 0, dy |-> 0, pi |-> FALSE]

applyTransform(f, dx, dy, pi) ==
    [f EXCEPT !.transform =
                  [kind |-> IF f.options.acceleration THEN "matrix3d"
                            ELSE "matrix",
                   dx |-> dx, dy |-> dy, pi |-> pi],
              !.shadow = IF f.options.gradients THEN TRUE ELSE @]

\* the components written into the transform string by applyTransform: the
\* six entries of `matrix`, joined, and for matrix3d the literal tail
\* ",0,0,0,0,1"; "cos", "sin", "-sin" are those of the angle, "foldX" and
\* "foldY" the fold
transformComponents(transform) ==
    LET matrix == <<"cos", "sin", "-sin", "cos", "foldX", "foldY">>
    IN  CASE transform.kind = "matrix3d" -> matrix \o <<"0", "0", "0", "0", "1">>
          [] transform.kind = "matrix" -> matrix
          [] OTHER -> <<>>

FlipPage_updateFlip(f, point) ==
    IF ~f.point.set THEN f
    ELSE applyTransform(f, point.x - f.point.x, point.y - f.point.y,
                        f.point.corner \in {"bl", "br"})

\* this.options.duration || 600
settleDuration(options) ==
    IF options.duration = 0 THEN 600 ELSE options.duration

\* completeFlip resetting the transform without a transition
FlipPage_completeFlip_instant(f) ==
    [f EXCEPT !.transform = NoneTransform]

\* fpage.style.transition is kept as the duration of the transition in ms, 0
\* when it is unset; the timeout that is scheduled is recorded by the caller
FlipPage_completeFlip(f) ==
    [f EXCEPT !.transition = settleDuration(f.options),
              !.transform = NoneTransform]

\* the side of the enclosing square, squared: width^2 + height^2
resize(f) == [f EXCEPT !.wrapperSq = f.size.w * f.size.w + f.size.h * f.size.h]

\* getDefaultCornerPoint with the top-left point as the default case
getDefaultCornerPoint_lenient(sz, corner) ==
    CASE corner = "tr" -> [ok |-> TRUE, x |-> sz.w, y |-> 0]
      [] corner = "bl" -> [ok |-> TRUE, x |-> 0, y |-> sz.h]
      [] corner = "br" -> [ok |-> TRUE, x |-> sz.w, y |-> sz.h]
      [] OTHER -> [ok |-> TRUE, x |-> 0, y |-> 0]

getDefaultCornerPoint(sz, corner) ==
    CASE corner = "tl" -> [ok |-> TRUE, x |-> 0, y |-> 0]
      [] corner = "tr" -> [ok |-> TRUE, x |-> sz.w, y |-> 0]
      [] corner = "bl" -> [ok |-> TRUE, x |-> 0, y |-> sz.h]
      [] corner = "br" -> [ok |-> TRUE, x |-> sz.w, y |-> sz.h]
      [] OTHER -> [ok |-> FALSE, x |-> 0, y |-> 0]

\* new FlipPage(element, options) on an element that has a parent
FlipConstruct(options, sz) ==
    resize([options |-> options, size |-> sz, isTurning |-> FALSE,
            isDisabled |-> FALSE, point |-> NoSession,
            transform |-> NoTransform, transition |-> 0,
            shadow |-> FALSE, wrapperSq |-> 0, inDom |-> TRUE])

FlipCall(op, point, corner) == [op |-> op, point |-> point, corner |-> corner]

\* the engine dispatches at most one notification per call
FlipApply(f, ev, call) ==
    /\ flip' = f
    /\ fevents' = ev
    /\ flast' = call
    /\ fopen' = (IF ev = <<>> THEN fopen ELSE ev[1].name = "flipstart")
    /\ UNCHANGED turnVars
    /\ UNCHANGED utilVars

\* handleStart without the test that a turn is in progress
FlipHandleStart_whileTurning(point) ==
    /\ flip.inDom
    /\ LET corner == FlipPage_detectCorner(flip.options, flip.size, point)
           skip == flip.isDisabled
           session == [set |-> TRUE, x |-> point.x, y |-> point.y,
                       corner |-> corner]
       IN  /\ IF ~skip /\ corner # NoCorner
              THEN FlipApply([flip EXCEPT !.point = session,
                                          !.isTurning = TRUE],
                             <<[name |-> "flipstart", point |-> session]>>,
                             FlipCall("handleStart", point, corner))
              ELSE FlipApply(flip, <<>>,
                             FlipCall("handleStart", point,
                                      IF skip THEN "skipped" ELSE corner))
           /\ UNCHANGED ftimers

\* a pointer start on the flipping page (which must be in the document to be
\* hit); flast.corner is the corner detectCorner returned, "skipped" when the
\* handler returned before detecting
FlipHandleStart(point) ==
    /\ flip.inDom
    /\ LET corner == FlipPage_detectCorner(flip.options, flip.size, point)
           skip == flip.isDisabled \/ flip.isTurning
           session == [set |-> TRUE, x |-> point.x, y |-> point.y,
                       corner |-> corner]
       IN  /\ IF ~skip /\ corner # NoCorner
              THEN FlipApply([flip EXCEPT !.point = session,
                                          !.isTurning = TRUE],
                             <<[name |-> "flipstart", point |-> session]>>,
                             FlipCall("handleStart", point, corner))
              ELSE FlipApply(flip, <<>>,
                             FlipCall("handleStart", point,
                                      IF skip THEN "skipped" ELSE corner))
           /\ UNCHANGED ftimers

FlipHandleMove(point) ==
    /\ LET f == IF ~flip.point.set \/ ~flip.isTurning THEN flip
                ELSE FlipPage_updateFlip(flip, point)
       IN  FlipApply(f, <<>>, FlipCall("handleMove", NoPoint, flip.point.corner))
    /\ UNCHANGED ftimers

FlipHandleEnd ==
    /\ (flip.point.set /\ flip.isTurning) => ftimers < MaxTimers
    /\ IF ~flip.point.set \/ ~flip.isTurning
       THEN /\ FlipApply(flip, <<>>,
                         FlipCall("handleEnd", NoPoint, flip.point.corner))
            /\ UNCHANGED ftimers
       ELSE /\ FlipApply([FlipPage_completeFlip([flip EXCEPT !.isTurning = FALSE])
                              EXCEPT !.point = NoSession],
                         <<[name |-> "flipend"]>>,
                         FlipCall("handleEnd", NoPoint, flip.point.corner))
            /\ ftimers' = ftimers + 1

\* the timeout scheduled by completeFlip fires and clears the transition
FlipTimerFire ==
    /\ ftimers > 0
    /\ ftimers' = ftimers - 1
    /\ FlipApply([flip EXCEPT !.transition = 0], <<>>,
                 FlipCall("timer", NoPoint, NoCorner))

\* flip(corner); "xx" stands for any string that names no corner
Flip(corner) ==
    /\ LET pt == getDefaultCornerPoint(flip.size, corner)
           session == [set |-> TRUE, x |-> pt.x, y |-> pt.y, corner |-> corner]
       IN  IF flip.isDisabled \/ flip.isTurning \/ ~pt.ok
           THEN FlipApply(flip, <<>>, FlipCall("flip", NoPoint, corner))
           ELSE FlipApply(FlipPage_updateFlip([flip EXCEPT !.point = session,
                                                           !.isTurning = TRUE],
                                              [x |-> pt.x, y |-> pt.y]),
                          <<>>, FlipCall("flip", NoPoint, corner))
    /\ UNCHANGED ftimers

\* disable that also drops a turn in progress
Disable_aborts(disabled) ==
    /\ FlipApply([flip EXCEPT !.isDisabled = disabled,
                              !.isTurning = IF disabled THEN FALSE ELSE @],
                 <<>>, FlipCall("disable", NoPoint, NoCorner))
    /\ UNCHANGED ftimers

Disable(disabled) ==
    /\ FlipApply([flip EXCEPT !.isDisabled = disabled], <<>>,
                 FlipCall("disable", NoPoint, NoCorner))
    /\ UNCHANGED ftimers

Resize ==
    /\ FlipApply(resize(flip), <<>>, FlipCall("resize", NoPoint, NoCorner))
    /\ UNCHANGED ftimers

\* destroy() hands removeEventListener freshly bound functions, so no listener
\* is removed; the wrappers (and the flipping page in them) leave the document
FlipDestroy ==
    /\ FlipApply([flip EXCEPT !.inDom = FALSE], <<>>,
                 FlipCall("destroy", NoPoint, NoCorner))
    /\ UNCHANGED ftimers

FlipPoints == PointsOf(flip.size, flip.options.cornerSize)

FlipInit ==
    \E options \in FlipOptionSets, sz \in FlipSizes :
        /\ flip = FlipConstruct(options, sz)
        /\ ftimers = 0
        /\ fevents = <<>>
        /\ flast = FlipCall("new", NoPoint, NoCorner)
        /\ fopen = FALSE

----------------------------------------------------------------------------
(* Utils (utils.ts) *)

\* Coordinates are fixed-point numbers in units of 1/10000 and the
\* arithmetic is exact; the parameter t is counted in halves (0, 1/2, 1).

\* control points: one with four decimal places (1.2345, -2.0001) and one
\* with none (3, 1)
BezierPoints == { [x |-> 12345, y |-> 0 - 20001], [x |-> 30000, y |-> 10000] }

\* values of t, in halves
BezierTimes == {0, 1, 2}

\* Math.round(v * 1000) / 1000 of the value n / d: the nearest multiple of
\* 1/1000, a half rounding up
round3(n, d) == 10 * ((n + 5 * d) \div (10 * d))

\* createPoint2D(xn / d, yn / d)
createPoint2D(xn, yn, d) == [x |-> round3(xn, d), y |-> round3(yn, d)]

\* the cubic Bezier point at t / 2 as bezier computes it when the map has no
\* entry: the four weights have the common denominator 8
bezierPoint(p1, p2, p3, p4, t) ==
    LET mum1 == 2 - t
        mum13 == mum1 * mum1 * mum1
        mu3 == t * t * t
    IN  createPoint2D(
            mum13 * p1.x + 3 * t * mum1 * mum1 * p2.x
                + 3 * t * t * mum1 * p3.x + mu3 * p4.x,
            mum13 * p1.y + 3 * t * mum1 * mum1 * p2.y
                + 3 * t * t * mum1 * p3.y + mu3 * p4.y,
            8)

\* the key of the memoization map: the nine numbers in the order of the
\* template string
bezierKey(p1, p2, p3, p4, t) ==
    <<p1.x, p1.y, p2.x, p2.y, p3.x, p3.y, p4.x, p4.y, t>>

\* Utils.bezier(p1, p2, p3, p4, t / 2) with the map `memo`: the point
\* returned and the map afterwards
bezier(memo, p1, p2, p3, p4, t) ==
    LET key == bezierKey(p1, p2, p3, p4, t)
    IN  IF \E e \in memo : e.key = key
        THEN [point |-> (CHOOSE e \in memo : e.key = key).point,
              memo |-> memo]
        ELSE LET point == bezierPoint(p1, p2, p3, p4, t)
             IN  [point |-> point,
                  memo |-> memo \cup {[key |-> key, point |-> point]}]

BezierCall(op, p1, p2, p3, p4, t, hit, result) ==
    [op |-> op, p1 |-> p1, p2 |-> p2, p3 |-> p3, p4 |-> p4, t |-> t,
     hit |-> hit, result |-> result]

NoBezierCall(op) ==
    BezierCall(op, NoPoint, NoPoint, NoPoint, NoPoint, 0, FALSE, NoPoint)

Bezier(p1, p2, p3, p4, t) ==
    LET hit == \E e \in memoizedBezier : e.key = bezierKey(p1, p2, p3, p4, t)
        r == bezier(memoizedBezier, p1, p2, p3, p4, t)
    IN  /\ hit \/ Cardinality(memoizedBezier) < MaxMemo
        /\ memoizedBezier' = r.memo
        /\ blast' = BezierCall("bezier", p1, p2, p3, p4, t, hit, r.point)
        /\ UNCHANGED turnVars
        /\ UNCHANGED flipVars

ClearMemoization ==
    /\ memoizedBezier' = {}
    /\ blast' = NoBezierCall("clearMemoization")
    /\ UNCHANGED turnVars
    /\ UNCHANGED flipVars

UtilInit ==
    /\ memoizedBezier = {}
    /\ blast = NoBezierCall("none")

FlipParked ==
    /\ flip = FlipConstruct(defaultFlipOptions, [w |-> 200, h |-> 120])
    /\ ftimers = 0
    /\ fevents = <<>>
    /\ flast = FlipCall("new", NoPoint, NoCorner)
    /\ fopen = FALSE

TurnParked ==
    /\ element = [w |-> 200, h |-> 120]
    /\ data = ClearedData
    /\ listening = FALSE
    /\ events = <<>>
    /\ last = [op |-> "none", n |-> 0, mode |-> "", el |-> FALSE,
               corner |-> NoCorner, err |-> FALSE]

FlipNext ==
    \/ \E point \in FlipPoints : FlipHandleStart(point)
    \/ \E point \in FlipPoints : FlipHandleMove(point)
    \/ FlipHandleEnd
    \/ FlipTimerFire
    \/ \E corner \in Corners \cup {"xx"} : Flip(corner)
    \/ \E disabled \in BOOLEAN : Disable(disabled)
    \/ Resize
    \/ FlipDestroy

InitFlip == FlipInit /\ TurnParked /\ UtilInit

FlipSpec == InitFlip /\ [][FlipNext]_vars

----------------------------------------------------------------------------
(* The pagination engine's specification *)

Init == TurnInit /\ FlipParked /\ UtilInit

Next ==
    \/ \E hasElement \in BOOLEAN, page \in PageArgs : AddPage(hasElement, page)
    \/ \E display \in DisplayArgs : SetDisplay(display)
    \/ \E pageNumber \in 0..(MaxPages + 1) : SetPage(pageNumber)
    \/ NextPage
    \/ PreviousPage
    \/ \E point \in PointsOf(element, TurnCornerSize) : HandleStart(point)
    \/ \E point \in PointsOf(element, TurnCornerSize) : HandleMove(point)
    \/ HandleEnd
    \/ Destroy

Spec == Init /\ [][Next]_vars

----------------------------------------------------------------------------
(* The utilities' specification *)

InitUtil == UtilInit /\ TurnParked /\ FlipParked

UtilNext ==
    \/ \E p1 \in BezierPoints, p2 \in BezierPoints, p4 \in BezierPoints,
          t \in BezierTimes :
           Bezier(p1, p2, [x |-> 30000, y |-> 10000], p4, t)
    \/ ClearMemoization

UtilSpec == InitUtil /\ [][UtilNext]_vars

----------------------------------------------------------------------------
(* Properties of the pagination engine (checked under Spec) *)

PageChanged(from, to) ==
    <<[name |-> "pageChanged", previous |-> from, current |-> to]>>

DisplayChanged(from, to) ==
    <<[name |-> "displayChanged", previous |-> from, current |-> to]>>

\* the navigation state next to the current page
SameBook(d, e) ==
    /\ e.display = d.display
    /\ e.totalPages = d.totalPages
    /\ e.pageMv = d.pageMv

\* C1: whenever there is at least one page, the current page lies within
\* 1..totalPages, in every state reachable after a successful construction
C1_PageInRange ==
    data.totalPages >= 1 => (1 <= data.page /\ data.page <= data.totalPages)

\* a flip completed and moved the current page
C1_Witness ==
    /\ last.op = "handleEnd"
    /\ Len(events) = 2
    /\ data.totalPages >= 1

\* the odd-first pairing of a view v around page p in display mode m
Pairing(v, p, m) ==
    /\ \E i \in 1..Len(v) : v[i] = p
    /\ m = "single" => v = <<p>>
    /\ m = "double" => (Len(v) = 2 /\ v[2] = v[1] + 1 /\ v[1] % 2 = 1)

\* C2: for every page p of the book, the view after setPage(p) contains p, is
\* <<p>> in single mode and an odd-first pair of adjacent pages in double
\* mode; the view is the same in any state with this page and display mode
C2_ViewPairs ==
    /\ \A p \in 1..data.totalPages :
           LET r == setPage(data, p)
           IN  ~r.err /\ r.d.page = p /\ Pairing(view(r.d), p, data.display)
    /\ (last.op = "setPage" /\ ~last.err) =>
           (data.page = last.n /\ Pairing(view(data), last.n, data.display))
    /\ view(data) = view([ClearedData EXCEPT !.page = data.page,
                                             !.display = data.display])

\* setPage moved to an even page of a double-page book
C2_Witness ==
    /\ last.op = "setPage"
    /\ ~last.err
    /\ Len(events) = 1
    /\ data.display = "double"
    /\ last.n % 2 = 0
    /\ view(data) = <<last.n - 1, last.n>>

\* C3: setPage(n) with n < 1 or n > totalPages throws and changes nothing:
\* this.data is unchanged and no notification is dispatched
C3_SetPageOutOfRange ==
    [][ (last'.op = "setPage"
             /\ (last'.n < 1 \/ last'.n > data.totalPages))
        => (last'.err /\ data' = data /\ events' = <<>>) ]_vars

\* setPage past the last page was refused during a drag
C3_Witness ==
    /\ last.op = "setPage"
    /\ last.err
    /\ last.n > data.totalPages
    /\ data.totalPages >= 1
    /\ Len(data.pageMv) = 1

\* the first two steps of the double-mode scenario: at page 1 of a 4-page
\* double-mode book the view is <<1, 2>>, and next() moves to page 3 with
\* view <<3, 4>>
C4_Start(d) == d.display = "double" /\ d.totalPages = 4 /\ d.page = 1

C4_FirstSteps ==
    /\ C4_Start(data) => view(data) = <<1, 2>>
    /\ (C4_Start(data) /\ last'.op = "next")
           => (data'.page = 3 /\ view(data') = <<3, 4>>)

\* previous() is called right after that next()
C4_ThenPrevious ==
    /\ last.op = "next"
    /\ events = PageChanged(1, 3)
    /\ data.display = "double"
    /\ data.totalPages = 4
    /\ last'.op = "previous"

\* C4 as stated: ... and the following previous() returns to page 1 with
\* view <<1, 2>>
C4_Original ==
    [][ /\ C4_FirstSteps
        /\ C4_ThenPrevious => (data'.page = 1 /\ view(data') = <<1, 2>>) ]_vars

\* C4 as amended: ... and the following previous() moves to page 2, the page
\* before the first page of the view, so that the view is <<1, 2>> again
C4_Amended ==
    [][ /\ C4_FirstSteps
        /\ C4_ThenPrevious => (/\ data'.page = 2
                               /\ view(data') = <<1, 2>>
                               /\ events' = PageChanged(3, 2)) ]_vars

\* previous() was called at page 3 of the 4-page double-mode book
C4_Witness ==
    /\ last.op = "previous"
    /\ events = PageChanged(3, 2)
    /\ data.display = "double"
    /\ data.totalPages = 4
    /\ view(data) = <<1, 2>>

\* C5: next() and previous() never throw; with the target max(view)+1 (resp.
\* min(view)-1) in range the current page becomes the target and pageChanged
\* is dispatched, otherwise nothing changes and nothing is dispatched; in
\* single mode with 4 pages next() steps 1, 2, 3, 4 and then stays at 4
C5_NextPrevious ==
    [][ /\ last'.op = "next" =>
               LET t == MaxOf(view(data)) + 1
               IN  /\ ~last'.err
                   /\ IF t <= data.totalPages
                      THEN /\ data'.page = t
                           /\ SameBook(data, data')
                           /\ events' = PageChanged(data.page, t)
                      ELSE data' = data /\ events' = <<>>
        /\ last'.op = "previous" =>
               LET t == MinOf(view(data)) - 1
               IN  /\ ~last'.err
                   /\ IF t >= 1
                      THEN /\ data'.page = t
                           /\ SameBook(data, data')
                           /\ events' = PageChanged(data.page, t)
                      ELSE data' = data /\ events' = <<>>
        /\ (last'.op = "next" /\ data.display = "single"
                /\ data.totalPages = 4)
               => data'.page = (IF data.page < 4 THEN data.page + 1 ELSE 4)
      ]_vars

\* a further next() at the last page of a 4-page single-mode book did nothing
C5_Witness ==
    /\ last.op = "next"
    /\ ~last.err
    /\ events = <<>>
    /\ data.display = "single"
    /\ data.totalPages = 4
    /\ data.page = 4

\* C6: setPage(n) with n in 1..totalPages changes nothing and dispatches
\* nothing when n is the current page; otherwise the current page becomes n
\* and exactly one pageChanged {previous: old page, current: n} is dispatched
C6_SetPageInRange ==
    [][ (last'.op = "setPage" /\ 1 <= last'.n /\ last'.n <= data.totalPages)
        => /\ ~last'.err
           /\ IF last'.n = data.page
              THEN data' = data /\ events' = <<>>
              ELSE /\ data'.page = last'.n
                   /\ SameBook(data, data')
                   /\ events' = PageChanged(data.page, last'.n) ]_vars

\* setPage moved the current page
C6_Witness ==
    /\ last.op = "setPage"
    /\ ~last.err
    /\ Len(events) = 1
    /\ events[1].current = last.n
    /\ events[1].previous # last.n

\* C7: setDisplay(m) with the current mode changes nothing and dispatches
\* nothing, so a second call with the same mode dispatches nothing; a call
\* that changes the mode dispatches exactly one displayChanged {previous: old
\* mode, current: m} and keeps the current page
C7_SetDisplayIdempotent ==
    [][ /\ (last'.op = "setDisplay" /\ last'.mode \in displays)
            => /\ ~last'.err
               /\ IF last'.mode = data.display
                  THEN data' = data /\ events' = <<>>
                  ELSE /\ data'.display = last'.mode
                       /\ data'.page = data.page
                       /\ data'.totalPages = data.totalPages
                       /\ data'.pageMv = data.pageMv
                       /\ events' = DisplayChanged(data.display, last'.mode)
        /\ (last.op = "setDisplay" /\ ~last.err /\ last'.op = "setDisplay"
                /\ last'.mode = last.mode)
            => (data' = data /\ events' = <<>>) ]_vars

\* setDisplay was called with the mode already in force
C7_Witness ==
    /\ last.op = "setDisplay"
    /\ ~last.err
    /\ last.mode = data.display
    /\ events = <<>>
    /\ data.done

\* C8: setDisplay with a mode other than 'single' and 'double' throws, and
\* leaves this.data (the display mode included) unchanged with no notification
C8_SetDisplayInvalid ==
    [][ (last'.op = "setDisplay" /\ last'.mode \notin displays)
        => (last'.err /\ data' = data /\ events' = <<>>) ]_vars

\* setDisplay refused an unrecognized mode
C8_Witness ==
    /\ last.op = "setDisplay"
    /\ last.err
    /\ last.mode \notin displays
    /\ data.display \in displays
    /\ data.totalPages >= 1

\* C9: addPage with an element stores the page at the given index, or at
\* totalPages + 1 when the index is omitted, and totalPages becomes the larger
\* of its old value and that index; addPage never lowers totalPages and never
\* changes the current page, the display mode or the motion set
C9_AddPage ==
    [][ last'.op = "addPage" =>
            /\ ~last'.err
            /\ events' = <<>>
            /\ data'.page = data.page
            /\ data'.display = data.display
            /\ data'.pageMv = data.pageMv
            /\ data'.totalPages >= data.totalPages
            /\ IF last'.el
               THEN LET i == IF last'.n = 0 THEN data.totalPages + 1
                             ELSE last'.n
                    IN  /\ data'.totalPages = Max(data.totalPages, i)
                        /\ DOMAIN data'.pageWrap = DOMAIN data.pageWrap \cup {i}
               ELSE data' = data ]_vars

\* addPage replaced an existing page below the page count
C9_Witness ==
    /\ last.op = "addPage"
    /\ last.el
    /\ last.n = 1
    /\ data.totalPages > 1

\* C12: the motion set holds at most one page in every reachable state, and
\* a startFlip issued while a drag is active is a no-op: this.data (motion
\* set, current page, anchored page) is unchanged and no second flipStart is
\* dispatched, as for startFlip('tr') twice at page 1 of a 4-page double-mode
\* book
C12_OneSession ==
    [][ /\ Len(data.pageMv) <= 1
        /\ Len(data'.pageMv) <= 1
        /\ Len(data.pageMv) > 0 =>
               \A corner \in Corners :
                   startFlip(data, element, corner) = R(data, <<>>, FALSE)
        /\ (last'.op = "handleStart" /\ Len(data.pageMv) > 0)
               => (~last'.err /\ data' = data /\ events' = <<>>) ]_vars

\* a second start at tr was ignored during the drag of page 1 of a 4-page
\* double-mode book
C12_Witness ==
    /\ last.op = "handleStart"
    /\ last.corner = "tr"
    /\ events = <<>>
    /\ data.pageMv = <<1>>
    /\ data.page = 1
    /\ data.totalPages = 4
    /\ data.display = "double"

\* the page anchored by a start at `corner`, and the page adjacent to it
Anchored(d, corner) ==
    IF corner \in {"tr", "br"} THEN view(d)[1] ELSE view(d)[Len(view(d))]

Adjacent(d, corner) ==
    IF corner \in {"tr", "br"} THEN Anchored(d, corner) + 1
    ELSE Anchored(d, corner) - 1

\* startFlip at a detected corner while no page is in motion: a no-op when
\* the adjacent page is out of range (or, with needsPage, when no page was
\* added at the anchored index); otherwise the anchored page becomes the
\* motion set and one flipStart carries it and the corner; the current page
\* is kept
StartFlipRule(needsPage) ==
    (last'.op = "handleStart" /\ last'.corner \in Corners
         /\ Len(data.pageMv) = 0)
    => LET anchored == Anchored(data, last'.corner)
           adjacent == Adjacent(data, last'.corner)
       IN  /\ ~last'.err
           /\ data'.page = data.page
           /\ IF \/ adjacent < 1
                 \/ adjacent > data.totalPages
                 \/ (needsPage /\ anchored \notin DOMAIN data.pageWrap)
              THEN data' = data /\ events' = <<>>
              ELSE /\ data'.pageMv = <<anchored>>
                   /\ SameBook(data, [data' EXCEPT !.pageMv = data.pageMv])
                   /\ events' = <<[name |-> "flipStart", page |-> anchored,
                                   corner |-> last'.corner]>>

\* C13 as stated: startFlip(corner) when idle anchors the first page of the
\* view for tr and br and the last for tl and bl; with the adjacent page
\* (anchored + 1, resp. anchored - 1) outside 1..totalPages it is a no-op,
\* otherwise the motion set becomes <<anchored>> and one flipStart with the
\* anchored page and the corner is dispatched; the current page is kept
C13_Original == [][StartFlipRule(FALSE)]_vars

\* C13 as amended: ... it is also a no-op when no page was added at the
\* anchored index
C13_Amended == [][StartFlipRule(TRUE)]_vars

\* a start at bl anchored page 4, the last page of the view of page 3
C13_Witness ==
    /\ last.op = "handleStart"
    /\ last.corner = "bl"
    /\ data.page = 3
    /\ data.display = "double"
    /\ data.pageMv = <<4>>
    /\ events = <<[name |-> "flipStart", page |-> 4, corner |-> "bl"]>>

\* the landing target of page q in display mode m
Landing(q, m) ==
    IF m = "double" THEN (IF q % 2 = 0 THEN q - 1 ELSE q + 1) ELSE q

\* C14: completeFlip with page q in motion lands on a page that depends only
\* on q and the display mode at completion (double: q - 1 for even q, q + 1
\* for odd q; single: q), whatever the pointer did and whatever setPage, next
\* and previous did during the drag; the current page is the target when the
\* target is in 1..totalPages; the motion set is empty afterwards and exactly
\* one flipComplete is dispatched. With an empty motion set nothing changes
C14_CompleteFlip ==
    [][ last'.op = "handleEnd" =>
            /\ ~last'.err
            /\ IF Len(data.pageMv) = 0
               THEN data' = data /\ events' = <<>>
               ELSE LET q == data.pageMv[1]
                        t == Landing(q, data.display)
                    IN  /\ data'.page = (IF 1 <= t /\ t <= data.totalPages
                                         THEN t ELSE data.page)
                        /\ data'.pageMv = <<>>
                        /\ data'.display = data.display
                        /\ data'.totalPages = data.totalPages
                        /\ Len(events') >= 1
                        /\ events'[Len(events')] =
                               [name |-> "flipComplete", page |-> q]
                        /\ \A i \in 1..(Len(events') - 1) :
                               events'[i].name # "flipComplete" ]_vars

\* the drag of an even page of a double-page book landed on the page before
C14_Witness ==
    /\ last.op = "handleEnd"
    /\ Len(events) = 2
    /\ events[2].name = "flipComplete"
    /\ events[2].page % 2 = 0
    /\ events[1].name = "pageChanged"
    /\ data.page = events[2].page - 1
    /\ data.display = "double"
    /\ data.pageMv = <<>>

\* C15: for every drag accepted by startFlip at current page c and completed
\* by completeFlip with no other operation in between, the current page
\* after completeFlip differs from c
C15_DragCommits ==
    [][ (last.op = "handleStart" /\ Len(events) = 1
             /\ Len(data.pageMv) = 1 /\ last'.op = "handleEnd")
        => data'.page # data.page ]_vars

\* a flipStart was dispatched by the last call and end is called next
DragThenEnd ==
    /\ last.op = "handleStart"
    /\ Len(events) = 1
    /\ Len(data.pageMv) = 1
    /\ last'.op = "handleEnd"

\* C24: a drag never changes the visible spread: when a startFlip accepted
\* with view() = V is followed at once by completeFlip, view() is V
\* afterwards; the current page stays in single mode and can only move to
\* the other page of its pair in double mode
C24_SameSpread ==
    [][ DragThenEnd =>
            /\ view(data') = view(data)
            /\ data'.display = data.display
            /\ data.display = "single" => data'.page = data.page
            /\ \E i \in 1..Len(view(data)) : view(data)[i] = data'.page
      ]_vars

\* a drag at page 1 of a double-mode book landed on page 2 of the same pair
C24_Witness ==
    /\ last.op = "handleEnd"
    /\ events = PageChanged(1, 2)
                    \o <<[name |-> "flipComplete", page |-> 1]>>
    /\ data.page = 2
    /\ data.display = "double"
    /\ view(data) = <<1, 2>>

\* C25: every page number returned by view() is the number of an existing
\* page, in 1..totalPages, in every state reached after construction
\* (books with an odd number of pages in double mode included)
C25_ViewExists ==
    (data.done /\ data.totalPages >= 1) =>
        \A i \in 1..Len(view(data)) :
            1 <= view(data)[i] /\ view(data)[i] <= data.totalPages

\* C26: after construction over N >= 1 pages and with no drag active, a page
\* wrapper is visible if and only if its page number is in view()
C26_VisibleIffInView ==
    (data.done /\ data.totalPages >= 1 /\ Len(data.pageMv) = 0) =>
        \A p \in DOMAIN data.pageWrap :
            (data.pageWrap[p].visibility = "visible") <=> InView(data, p)

----------------------------------------------------------------------------
(* Properties of the single-surface engine (checked under FlipSpec) *)

\* the allowed-corner policy of each preset
PresetCorners(preset) ==
    CASE preset = "forward" -> {"tr", "br"}
      [] preset = "backward" -> {"tl", "bl"}
      [] preset = "all" -> Corners

Presets == {"forward", "backward", "all"}

\* the point lies in the square zone of side cs at the corner
InZone(corner, point, sz, cs) ==
    CASE corner = "tl" -> point.y < cs /\ point.x < cs
      [] corner = "tr" -> point.y < cs /\ point.x > sz.w - cs
      [] corner = "bl" -> point.y > sz.h - cs /\ point.x < cs
      [] corner = "br" -> point.y > sz.h - cs /\ point.x > sz.w - cs

\* the four zones are pairwise disjoint
Disjoint(sz, cs) == 2 * cs < sz.w /\ 2 * cs < sz.h

\* pointer positions on both sides of every zone boundary and of every edge
GridOf(sz, cs) ==
    { [x |-> px, y |-> py] :
        px \in {0 - 1, 0, cs - 1, cs, sz.w - cs, sz.w - cs + 1, sz.w, sz.w + 1},
        py \in {0 - 1, 0, cs - 1, cs, sz.h - cs, sz.h - cs + 1, sz.h, sz.h + 1} }

\* what C10 says of the corner detected at a point
Honoured(corner, point) ==
    LET preset == flip.options.corners
        cs == flip.options.cornerSize
    IN  /\ corner \in Corners \cup {NoCorner}
        /\ preset \in Presets => corner \in PresetCorners(preset) \cup {NoCorner}
        /\ preset = "backward" => corner \notin {"tr", "br"}
        /\ (preset \in Presets /\ Disjoint(flip.size, cs)
                /\ \E c \in Corners \ PresetCorners(preset) :
                       InZone(c, point, flip.size, cs))
               => corner = NoCorner

\* C10: detection returns none or a corner of the allowed set of the preset
\* (forward: tr, br; backward: tl, bl; all: the four); with 'backward' it
\* never returns tr or br; with disjoint zones a point in the zone of a
\* corner that is not allowed yields none
C10_AllowedOnly ==
    /\ \A point \in GridOf(flip.size, flip.options.cornerSize) :
           Honoured(FlipPage_detectCorner(flip.options, flip.size, point),
                    point)
    /\ (flast.op = "handleStart" /\ flast.corner # "skipped")
           => Honoured(flast.corner, flast.point)

\* a pointer start in the top-right zone was not detected under 'backward'
C10_Witness ==
    /\ flast.op = "handleStart"
    /\ flip.options.corners = "backward"
    /\ Disjoint(flip.size, flip.options.cornerSize)
    /\ InZone("tr", flast.point, flip.size, flip.options.cornerSize)
    /\ flast.corner = NoCorner
    /\ ~flip.isTurning

\* the corner detected at a point is the corner whose zone holds the point,
\* none when no zone holds it, and at most one zone holds it
ZoneRule(corner, point, sz, cs) ==
    /\ \A c \in Corners : (corner = c) <=> InZone(c, point, sz, cs)
    /\ (corner = NoCorner) <=> (\A c \in Corners : ~InZone(c, point, sz, cs))
    /\ Cardinality({c \in Corners : InZone(c, point, sz, cs)}) <= 1

\* the zones the claim speaks of: a positive zone size with disjoint zones
\* (a zone size of 0 switches detection off)
ZonesApply(sz, cs) == cs >= 1 /\ Disjoint(sz, cs)

\* C11: with all corners allowed and a zone size below half the width and
\* half the height, detection returns tl iff y < zoneSize and x < zoneSize,
\* tr iff y < zoneSize and x > width - zoneSize, bl iff y > height - zoneSize
\* and x < zoneSize, br iff y > height - zoneSize and x > width - zoneSize,
\* and none otherwise, with at most one zone matching; the point
\* (zoneSize-1, zoneSize-1) resolves to tl and (zoneSize, zoneSize) does not.
\* Both engines' detectors are covered.
C11_Zones ==
    LET cs == flip.options.cornerSize
        all == [flip.options EXCEPT !.corners = "all"]
    IN  /\ ZonesApply(flip.size, cs) =>
               /\ \A point \in GridOf(flip.size, cs) :
                      ZoneRule(FlipPage_detectCorner(all, flip.size, point),
                               point, flip.size, cs)
               /\ FlipPage_detectCorner(all, flip.size,
                                        [x |-> cs - 1, y |-> cs - 1]) = "tl"
               /\ FlipPage_detectCorner(all, flip.size,
                                        [x |-> cs, y |-> cs]) # "tl"
        /\ (ZonesApply(flip.size, cs) /\ flip.options.corners = "all"
                /\ flast.op = "handleStart" /\ flast.corner # "skipped")
               => ZoneRule(flast.corner, flast.point, flip.size, cs)
        /\ ZonesApply(element, TurnCornerSize) =>
               /\ \A point \in GridOf(element, TurnCornerSize) :
                      ZoneRule(TurnPage_detectCorner(element, point), point,
                               element, TurnCornerSize)
               /\ TurnPage_detectCorner(element,
                      [x |-> TurnCornerSize - 1, y |-> TurnCornerSize - 1])
                      = "tl"
               /\ TurnPage_detectCorner(element,
                      [x |-> TurnCornerSize, y |-> TurnCornerSize]) # "tl"

\* with all corners allowed, a start at (zoneSize-1, zoneSize-1) opened a
\* turn at tl
C11_Witness ==
    /\ flast.op = "handleStart"
    /\ flip.options.corners = "all"
    /\ ZonesApply(flip.size, flip.options.cornerSize)
    /\ flast.point = [x |-> flip.options.cornerSize - 1,
                      y |-> flip.options.cornerSize - 1]
    /\ flast.corner = "tl"
    /\ flip.isTurning
    /\ flip.point.corner = "tl"

\* the point lies in the zone of a corner the `corners` option allows
InAllowedZone(point) ==
    \E c \in allowedCorners(flip.options.corners) :
        InZone(c, point, flip.size, flip.options.cornerSize)

\* C16: a start while the engine is disabled or turning changes nothing
\* (session point, corner and turning flag are kept) and dispatches no
\* flipstart; a start while idle and enabled enters turning iff the point
\* lies in an allowed corner zone, and then the session holds that point and
\* corner and exactly one flipstart carrying the session point is dispatched;
\* with no corner matching the engine stays idle and dispatches nothing
C16_Start ==
    [][ flast'.op = "handleStart" =>
            IF flip.isDisabled \/ flip.isTurning
            THEN flip' = flip /\ fevents' = <<>> /\ ftimers' = ftimers
            ELSE /\ flip.options.cornerSize >= 1 =>
                        (flip'.isTurning <=> InAllowedZone(flast'.point))
                 /\ flip'.isTurning <=> flast'.corner \in Corners
                 /\ ftimers' = ftimers
                 /\ IF flip'.isTurning
                    THEN /\ flip' = [flip EXCEPT
                                        !.isTurning = TRUE,
                                        !.point = [set |-> TRUE,
                                                   x |-> flast'.point.x,
                                                   y |-> flast'.point.y,
                                                   corner |-> flast'.corner]]
                         /\ InZone(flast'.corner, flast'.point, flip.size,
                                   flip.options.cornerSize)
                         /\ flast'.corner \in allowedCorners(flip.options.corners)
                         /\ fevents' = <<[name |-> "flipstart",
                                          point |-> flip'.point]>>
                    ELSE flip' = flip /\ fevents' = <<>> ]_vars

\* a start in the bottom-left zone opened a turn under 'backward' with no
\* settle pending
C16_Witness ==
    /\ flast.op = "handleStart"
    /\ flast.corner = "bl"
    /\ flip.options.corners = "backward"
    /\ flip.isTurning
    /\ ftimers = 0
    /\ fevents = <<[name |-> "flipstart", point |-> flip.point]>>

\* C17: flip(corner) for a valid corner on an idle, enabled engine runs the
\* update and the settle of a drag that ends: when it returns the session is
\* cleared, the engine is idle and the settle has been triggered (transform
\* reset with the transition, the clearing timeout scheduled)
C17_FlipSettles ==
    [][ (flast'.op = "flip" /\ flast'.corner \in Corners
             /\ ~flip.isDisabled /\ ~flip.isTurning)
        => /\ ~flip'.point.set
           /\ ~flip'.isTurning
           /\ flip'.transform = NoneTransform
           /\ flip'.transition = settleDuration(flip.options)
           /\ ftimers' = ftimers + 1 ]_vars

\* C18: while disabled and idle neither start nor flip enters turning;
\* disable(true) during a turn keeps the engine turning with its session, and
\* later moves still update the fold; end returns a turning engine to idle
\* and dispatches flipend, and the turning flag becomes false only in the end
\* handler
C18_Disable ==
    [][ /\ (flip.isDisabled /\ ~flip.isTurning
                /\ flast'.op \in {"handleStart", "flip"})
            => (flip' = flip /\ fevents' = <<>>)
        /\ (flast'.op = "disable" /\ flip.isTurning)
            => /\ flip'.isTurning
               /\ flip' = [flip EXCEPT !.isDisabled = flip'.isDisabled]
               /\ fevents' = <<>>
        /\ (flast'.op = "handleMove" /\ flip.isTurning /\ flip.isDisabled)
            => /\ flip'.isTurning
               /\ flip'.point = flip.point
               /\ flip'.transform.kind \in {"matrix", "matrix3d"}
               /\ \E point \in FlipPoints :
                      /\ flip'.transform.dx = point.x - flip.point.x
                      /\ flip'.transform.dy = point.y - flip.point.y
        /\ (flast'.op = "handleEnd" /\ flip.isTurning)
            => (~flip'.isTurning /\ fevents' = <<[name |-> "flipend"]>>)
        /\ (flip.isTurning /\ ~flip'.isTurning)
            => flast'.op = "handleEnd" ]_vars

\* a turn that was disabled on the way was ended by end
C18_Witness ==
    /\ flast.op = "handleEnd"
    /\ flip.isDisabled
    /\ ~flip.isTurning
    /\ fevents = <<[name |-> "flipend"]>>
    /\ flip.transform = NoneTransform

\* C19: end() of a turn clears the session, sets the engine idle, resets the
\* transform to 'none' with a transition of the configured duration (600 ms
\* when none is configured), schedules the timeout that clears the
\* transition and dispatches one flipend; a start in an allowed corner zone
\* before that timeout has fired is accepted and enters turning
C19_FireAndForget ==
    [][ /\ (flast'.op = "handleEnd" /\ flip.isTurning)
            => /\ flip' = [flip EXCEPT
                              !.point = NoSession,
                              !.isTurning = FALSE,
                              !.transform = NoneTransform,
                              !.transition = IF flip.options.duration = 0
                                             THEN 600
                                             ELSE flip.options.duration]
               /\ ftimers' = ftimers + 1
               /\ fevents' = <<[name |-> "flipend"]>>
        /\ (flast'.op = "handleStart" /\ ftimers > 0
                /\ ~flip.isTurning /\ ~flip.isDisabled
                /\ flip.options.cornerSize >= 1
                /\ InAllowedZone(flast'.point))
            => /\ flip'.isTurning
               /\ flip'.point.set
               /\ Len(fevents') = 1
               /\ ftimers' = ftimers ]_vars

\* a start was accepted while the settle of the turn before was in flight
C19_Witness ==
    /\ flast.op = "handleStart"
    /\ flip.isTurning
    /\ ftimers > 0
    /\ flip.transition = flip.options.duration
    /\ flip.options.duration = 300
    /\ Len(fevents) = 1

\* C20: the timeout of an earlier settle that fires while the timeout of a
\* later settle is still pending (all timeouts have the same duration, so
\* they fire in the order they were scheduled) is a no-op: it does not clear
\* the transition the later settle set and alters no other state
C20_Superseded ==
    [][ (flast'.op = "timer" /\ ftimers' >= 1)
        => flip' = flip ]_vars

\* the column-major 4x4 matrix that embeds the 2D affine map (a, b, c, d,
\* tx, ty): no translation or scale in the added axis, 1 on its diagonal
Embedded(m) ==
    <<m[1], m[2], "0", "0",
      m[3], m[4], "0", "0",
      "0", "0", "1", "0",
      m[5], m[6], "0", "1">>

\* C21: the transform written by applyTransform is, with acceleration off,
\* the six-component matrix (cos a, sin a, -sin a, cos a, foldX, foldY) and,
\* with acceleration on, a 4x4 matrix of exactly 16 components that embeds
\* the same 2D affine map
C21_Transform ==
    LET c == transformComponents(flip.transform)
        affine == <<"cos", "sin", "-sin", "cos", "foldX", "foldY">>
    IN  /\ flip.transform.kind = "matrix" => c = affine
        /\ flip.transform.kind = "matrix3d" =>
               (Len(c) = 16 /\ c = Embedded(affine))
        /\ (flast.op = "handleMove" /\ flip.isTurning) =>
               flip.transform.kind =
                   (IF flip.options.acceleration THEN "matrix3d" ELSE "matrix")

\* C23: after destroy() (the flipping page has left the document) pointer
\* start, move and end events are not handled by the instance: they change
\* none of its state and dispatch no notification
C23_Destroyed ==
    [][ (~flip.inDom
             /\ flast'.op \in {"handleStart", "handleMove", "handleEnd"})
        => (flip' = flip /\ fevents' = <<>> /\ ftimers' = ftimers) ]_vars

\* C27: over any sequence of start, move, end, flip and disable calls,
\* flipstart and flipend alternate, beginning with flipstart: a flipend is
\* dispatched only while a flipstart is unmatched, and a flipstart only
\* while none is
C27_Alternate ==
    [][ Len(fevents') = 1 =>
            /\ fevents'[1].name = "flipend" => fopen
            /\ fevents'[1].name = "flipstart" => ~fopen ]_vars

\* a session exists exactly while the engine is turning, and its corner is
\* one of the four
SessionRule(f) ==
    /\ f.point.set <=> f.isTurning
    /\ f.point.set => f.point.corner \in Corners
    /\ ~f.point.set => f.point = NoSession

\* C28: after every handler or public call, a session (the stored point
\* with its corner) exists if and only if the engine is turning, and the
\* stored corner is one of tl, tr, bl, br; flip with any other corner value
\* leaves the engine idle with no session
C28_Session ==
    [][ /\ SessionRule(flip)
        /\ SessionRule(flip')
        /\ (flast'.op = "flip" /\ flast'.corner \notin Corners)
               => (flip' = flip /\ fevents' = <<>>) ]_vars

\* flip with a value that names no corner left an idle, enabled engine idle
C28_Witness ==
    /\ flast.op = "flip"
    /\ flast.corner = "xx"
    /\ ~flip.isDisabled
    /\ ~flip.isTurning
    /\ ~flip.point.set
    /\ flip.inDom

----------------------------------------------------------------------------
(* Properties of the utilities (checked under UtilSpec) *)

\* C22: bezier at t = 0 returns exactly p1 and at t = 1 exactly p4, for all
\* control points (coordinates with more than three decimal places
\* included), and a memoized call returns the value a fresh computation
\* gives for the same arguments
C22_Bezier ==
    blast.op = "bezier" =>
        /\ blast.t = 0 => blast.result = blast.p1
        /\ blast.t = 2 => blast.result = blast.p4
        /\ blast.result =
               bezierPoint(blast.p1, blast.p2, blast.p3, blast.p4, blast.t)

====
